---- MODULE Spec2Model ----
(***************************************************************************)
(* Huffman coder of src/main.rs: frequency analysis, greedy tree building  *)
(* over a min-priority queue, code table derivation, encode and decode.    *)
(*                                                                         *)
(* The tree of boxed nodes is held as an arena: `nodes` is the sequence of *)
(* all HuffmanNode values built so far, a Box<HuffmanNode> is the index of *)
(* the node, Option::None is NoNode (left/right) or NoChar (value).        *)
(* The BinaryHeap<Reverse<HuffmanNode>> is the set of indices it holds;    *)
(* nodes compare by frequency alone (Ord, lines 18-22), so pop may return  *)
(* any node of least frequency.                                            *)
(***************************************************************************)
EXTENDS Integers, Sequences, FiniteSets, TLC

\* Bounds of the model.
NumSyms == 4    \* alphabet size of the frequency mappings (SpecFreq)
MaxFreq == 3    \* largest count in an enumerated frequency mapping
NumChars == 3   \* alphabet size of the symbol sequences (Spec)
MaxLen == 3     \* longest symbol sequence given to new
MaxEncLen == 2  \* longest symbol sequence, other than `chars`, given to encode
MaxBits == 4    \* longest arbitrary bit sequence given to decode

AllSyms == <<"a", "b", "c", "d", "e", "f">>
Alphabet(n) == {AllSyms[i] : i \in 1..n}

NoNode == 0     \* Option<Box<HuffmanNode>>::None
NoChar == ""    \* Option<char>::None

VARIABLES
    pc,           \* "start" | "merging" | "ready" | "panicked"
    entry,        \* which constructor ran: "none" | "new" | "build"
    panic,        \* panic message of the aborted process, "" if none
    chars,        \* the slice given to HuffmanTree::new
    frequencies,  \* HashMap<char, i32>
    nodes,        \* arena of HuffmanNode
    heap,         \* BinaryHeap<Reverse<HuffmanNode>>, as a set of indices
    merges,       \* iterations of the merge loop executed
    root,         \* HuffmanTree.root
    table,        \* HuffmanTree.table
    encIn, encOut,   \* last encode call: argument and outcome
    decIn, decOut    \* last decode call: argument and outcome

vars == <<pc, entry, panic, chars, frequencies, nodes, heap, merges, root,
          table, encIn, encOut, decIn, decOut>>

----------------------------------------------------------------------------
\* Helpers on finite sequences and sets.

SeqsUpTo(S, n) == UNION {[1..k -> S] : k \in 0..n}

RECURSIVE SumOver(_, _)
SumOver(f, S) ==
    IF S = {} THEN 0
    ELSE LET x == CHOOSE y \in S : TRUE
         IN f[x] + SumOver(f, S \ {x})

IsPrefix(s, t) == Len(s) <= Len(t) /\ SubSeq(t, 1, Len(s)) = s

----------------------------------------------------------------------------
\* struct HuffmanNode

HuffmanNode(l, r, v, f) == [left |-> l, right |-> r, value |-> v, frequency |-> f]

\* The leaf pushed for one key of the mapping (lines 77-82).
LeafNode(c, f) == HuffmanNode(NoNode, NoNode, c, f)

\* A mutation of NewNode: the children are stored the other way round.
NewNodeSwapped(ns, left, right) ==
    HuffmanNode(right, left, NoChar, ns[left].frequency + ns[right].frequency)

\* A mutation of NewNode: the frequency of the second node is dropped.
NewNodeLeftFrequency(ns, left, right) ==
    HuffmanNode(left, right, NoChar, ns[left].frequency)

\* The node built by one merge (lines 89-95).
NewNode(ns, left, right) ==
    HuffmanNode(left, right, NoChar, ns[left].frequency + ns[right].frequency)

\* A mutation of HeapPop: the Reverse wrapper is forgotten (a max-heap).
HeapPopMax(ns, h) ==
    {n \in h : \A m \in h : ns[m].frequency <= ns[n].frequency}

\* heap.pop() on BinaryHeap<Reverse<HuffmanNode>>: the nodes it may return,
\* those of least frequency (Ord compares frequency only).
HeapPop(ns, h) ==
    {n \in h : \A m \in h : ns[n].frequency <= ns[m].frequency}

----------------------------------------------------------------------------
\* get_frequencies (lines 170-178)

RECURSIVE get_frequencies(_)
get_frequencies(cs) ==
    IF cs = <<>> THEN <<>>
    ELSE LET prev == get_frequencies(SubSeq(cs, 1, Len(cs) - 1))
             c == cs[Len(cs)]
         IN IF c \in DOMAIN prev
            THEN [prev EXCEPT ![c] = @ + 1]
            ELSE (c :> 1) @@ prev

\* unique_chars after sort_by (lines 67-73): the keys in any HashMap order,
\* stably sorted by frequency.
UniqueChars(freqs) ==
    LET n == Cardinality(DOMAIN freqs)
    IN {s \in [1..n -> DOMAIN freqs] :
          /\ \A i, j \in 1..n : i # j => s[i] # s[j]
          /\ \A i, j \in 1..n : i < j => freqs[s[i]] <= freqs[s[j]]}

----------------------------------------------------------------------------
\* build_table (lines 37-64)

\* A mutation of ChildCode: the bit of the branch is not appended.
ChildCodeNoPush(code, bit) == code

\* A mutation of ChildCode: both branches append false.
ChildCodeAlwaysFalse(code, bit) == Append(code, FALSE)

\* child_code = code.clone(); child_code.push(bit)
ChildCode(code, bit) == Append(code, bit)

RECURSIVE build_table(_, _, _, _)
build_table(ns, node, code, tbl) ==
    IF ns[node].value # NoChar
    THEN (ns[node].value :> code) @@ tbl     \* table.insert(value, code)
    ELSE LET t1 == build_table(ns, ns[node].left, ChildCode(code, FALSE), tbl)
         IN build_table(ns, ns[node].right, ChildCode(code, TRUE), t1)

\* The panics of build_table: an internal node with a missing child.
RECURSIVE build_table_panics(_, _)
build_table_panics(ns, node) ==
    IF ns[node].value # NoChar THEN FALSE
    ELSE \/ ns[node].left = NoNode
         \/ ns[node].right = NoNode
         \/ build_table_panics(ns, ns[node].left)
         \/ build_table_panics(ns, ns[node].right)

----------------------------------------------------------------------------
\* HuffmanTree::encode (lines 121-135)

NotFoundMsg == "was not found in huffman tree :: Failed to encode"

\* A mutation of encode: a symbol without a code is skipped.
RECURSIVE encodeSkipping(_, _, _, _)
encodeSkipping(tbl, cs, i, result) ==
    IF i > Len(cs) THEN [state |-> "returned", bits |-> result]
    ELSE IF cs[i] \in DOMAIN tbl
         THEN encodeSkipping(tbl, cs, i + 1, result \o tbl[cs[i]])
         ELSE encodeSkipping(tbl, cs, i + 1, result)

\* The loop from position i with `result` accumulated so far. A panic
\* unwinds the call: `result` is dropped and nothing is returned.
RECURSIVE encode(_, _, _, _)
encode(tbl, cs, i, result) ==
    IF i > Len(cs) THEN [state |-> "returned", bits |-> result]
    ELSE IF cs[i] \in DOMAIN tbl
         THEN encode(tbl, cs, i + 1, result \o tbl[cs[i]])
         ELSE [state |-> "panicked", bits |-> <<>>]

----------------------------------------------------------------------------
\* HuffmanTree::decode (lines 137-167)

\* One bit: the move to a child if there is one (lines 143-154).
DecodeMove(ns, current_node, bit) ==
    LET next == IF bit THEN ns[current_node].right ELSE ns[current_node].left
    IN IF next # NoNode THEN next ELSE current_node

\* The loop from position i: the symbols pushed and the final cursor.
RECURSIVE decode(_, _, _, _, _, _)
decode(ns, rt, code, i, current_node, result) ==
    IF i > Len(code) THEN [result |-> result, current_node |-> current_node]
    ELSE LET moved == DecodeMove(ns, current_node, code[i])
         IN IF ns[moved].value # NoChar
            THEN decode(ns, rt, code, i + 1, rt, Append(result, ns[moved].value))
            ELSE decode(ns, rt, code, i + 1, moved, result)

----------------------------------------------------------------------------
\* The state machine.

NoCall == [state |-> "none", bits |-> <<>>]
NoDecode == [state |-> "none", result |-> <<>>]

Init ==
    /\ pc = "start"
    /\ entry = "none"
    /\ panic = ""
    /\ chars = <<>>
    /\ frequencies = <<>>
    /\ nodes = <<>>
    /\ heap = {}
    /\ merges = 0
    /\ root = NoNode
    /\ table = <<>>
    /\ encIn = <<>>
    /\ encOut = NoCall
    /\ decIn = <<>>
    /\ decOut = NoDecode

\* build_huffman_from_frequencies up to the merge loop (lines 67-84). The
\* index of a leaf in the arena is only its name: the order of the pushes
\* decides nothing but which of several least nodes a later pop returns,
\* and HeapPop allows every one of them. The leaves are therefore named
\* after one of the possible orders of unique_chars.
PushLeaves(freqs) ==
    LET unique_chars == CHOOSE s \in UniqueChars(freqs) : TRUE
    IN /\ frequencies' = freqs
       /\ nodes' = [i \in 1..Len(unique_chars) |->
                       LeafNode(unique_chars[i], freqs[unique_chars[i]])]
       /\ heap' = 1..Len(unique_chars)
       /\ merges' = 0
       /\ pc' = "merging"

\* HuffmanTree::new (lines 112-115).
New(cs) ==
    /\ pc = "start"
    /\ entry' = "new"
    /\ chars' = cs
    /\ PushLeaves(get_frequencies(cs))
    /\ UNCHANGED <<panic, root, table, encIn, encOut, decIn, decOut>>

\* build_huffman_from_frequencies called on a mapping (line 205).
BuildFromFrequencies(freqs) ==
    /\ pc = "start"
    /\ entry' = "build"
    /\ PushLeaves(freqs)
    /\ UNCHANGED <<panic, chars, root, table, encIn, encOut, decIn, decOut>>

\* One iteration of the merge loop (lines 86-99).
Merge ==
    /\ pc = "merging"
    /\ Cardinality(heap) > 1
    /\ \E left \in HeapPop(nodes, heap) :
         \E right \in HeapPop(nodes, heap \ {left}) :
            /\ nodes' = Append(nodes, NewNode(nodes, left, right))
            /\ heap' = (heap \ {left, right}) \cup {Len(nodes) + 1}
    /\ merges' = merges + 1
    /\ UNCHANGED <<pc, entry, panic, chars, frequencies, root, table,
                   encIn, encOut, decIn, decOut>>

\* After the loop (lines 101-108): pop the root and derive the table, or
\* panic on an empty heap.
Finish ==
    /\ pc = "merging"
    /\ Cardinality(heap) <= 1
    /\ IF heap = {} \/ (\E r \in heap : build_table_panics(nodes, r))
       THEN /\ pc' = "panicked"
            /\ panic' = IF heap = {} THEN "Something strange going on :/"
                        ELSE "Something strange happening :/"
            /\ UNCHANGED <<heap, root, table>>
       ELSE \E r \in HeapPop(nodes, heap) :
            /\ heap' = heap \ {r}
            /\ root' = r
            /\ table' = build_table(nodes, r, <<>>, <<>>)
            /\ pc' = "ready"
            /\ UNCHANGED panic
    /\ UNCHANGED <<entry, chars, frequencies, nodes, merges,
                   encIn, encOut, decIn, decOut>>

\* huffman_tree.encode(cs), the first call on the coder.
Encode(cs) ==
    /\ pc = "ready"
    /\ encOut.state = "none"
    /\ decOut.state = "none"
    /\ encIn' = cs
    /\ encOut' = encode(table, cs, 1, <<>>)
    /\ IF encOut'.state = "panicked"
       THEN pc' = "panicked" /\ panic' = NotFoundMsg
       ELSE UNCHANGED <<pc, panic>>
    /\ UNCHANGED <<entry, chars, frequencies, nodes, heap, merges, root,
                   table, decIn, decOut>>

\* huffman_tree.encode(&chars), as in main (lines 236-237).
EncodeChars ==
    /\ entry = "new"
    /\ Encode(chars)

\* huffman_tree.encode on a sequence that need not be the one given to new.
EncodeOther(cs) == Encode(cs)

\* huffman_tree.decode(code)
Decode(code) ==
    /\ pc = "ready"
    /\ decOut.state = "none"
    /\ decIn' = code
    /\ decOut' = [state |-> "returned",
                  result |-> decode(nodes, root, code, 1, root, <<>>).result]
    /\ UNCHANGED <<pc, entry, panic, chars, frequencies, nodes, heap, merges,
                   root, table, encIn, encOut>>

\* huffman_tree.decode(&encoded), as in main (lines 237-238).
DecodeEncoded ==
    /\ encOut.state = "returned"
    /\ Decode(encOut.bits)

\* huffman_tree.decode on bits that come from elsewhere.
DecodeBits(code) ==
    /\ encOut.state = "none"
    /\ Decode(code)

\* Inputs.
CharSeqs == SeqsUpTo(Alphabet(NumChars), MaxLen)
OtherSeqs == SeqsUpTo(Alphabet(NumChars), MaxEncLen)
BitSeqs == SeqsUpTo(BOOLEAN, MaxBits)

\* The mapping of tests::test_build_huffman_from_frequencies (lines 197-204).
TestFrequencies ==
    ("f" :> 5) @@ ("e" :> 9) @@ ("c" :> 12) @@ ("b" :> 13) @@ ("d" :> 16) @@ ("a" :> 45)

\* The enumerated mappings. The code never compares or inspects a symbol, so
\* a mapping and its renamings build the same trees: one mapping stands for
\* each multiset of counts, over the first k symbols, with the counts in
\* ascending order. A count of 0 is a legal value of the HashMap<char, i32>.
FreqMaps ==
    UNION {{f \in [Alphabet(k) -> 0..MaxFreq] :
               \A i, j \in 1..k : i < j => f[AllSyms[i]] <= f[AllSyms[j]]}
           : k \in 0..NumSyms}

\* The sessions of a coder: new, then either encode and the decode of its
\* result (main), or a decode of arbitrary bits. The coder is immutable, so
\* no call depends on the calls before it.
Next ==
    \/ \E cs \in CharSeqs : New(cs)
    \/ Merge
    \/ Finish
    \/ EncodeChars
    \/ \E cs \in OtherSeqs : EncodeOther(cs)
    \/ DecodeEncoded
    \/ \E code \in BitSeqs : DecodeBits(code)

Spec == Init /\ [][Next]_vars

\* The tree builder on any frequency mapping.
NextFreq ==
    \/ \E freqs \in FreqMaps \cup {TestFrequencies} : BuildFromFrequencies(freqs)
    \/ Merge
    \/ Finish

SpecFreq == Init /\ [][NextFreq]_vars

----------------------------------------------------------------------------
\* Vocabulary of the properties.

NumKeys == Cardinality(DOMAIN frequencies)
IsLeaf(n) == nodes[n].value # NoChar
TotalFrequency == SumOver(frequencies, DOMAIN frequencies)

\* The node reached from `node` along code[i..], NoNode if a leaf is met
\* before the last bit or a child is missing.
RECURSIVE Walk(_, _, _)
Walk(node, code, i) ==
    IF node = NoNode THEN NoNode
    ELSE IF i > Len(code) THEN node
    ELSE IF IsLeaf(node) THEN NoNode
    ELSE Walk(IF code[i] THEN nodes[node].right ELSE nodes[node].left, code, i + 1)

\* The cursor of decode after the whole of decIn.
FinalCursor == decode(nodes, root, decIn, 1, root, <<>>).current_node

Pow2(k) == IF k = 0 THEN 1 ELSE IF k = 1 THEN 2 ELSE IF k = 2 THEN 4
           ELSE IF k = 3 THEN 8 ELSE IF k = 4 THEN 16 ELSE IF k = 5 THEN 32
           ELSE 64

RECURSIVE SumTo(_, _)
SumTo(f, n) == IF n = 0 THEN 0 ELSE f[n] + SumTo(f, n - 1)

\* Code lengths are given per leaf: nodes[1..NumKeys] are the leaves pushed
\* for the keys of the mapping. By Kraft's inequality the lengths `len` are
\* those of some binary prefix-free code exactly if sum 2^-len[i] <= 1.
Kraft(len) ==
    SumTo([i \in 1..NumKeys |-> Pow2(NumKeys - len[i])], NumKeys) <= Pow2(NumKeys)

Cost(len) == SumTo([i \in 1..NumKeys |-> len[i] * nodes[i].frequency], NumKeys)

TableLengths == [i \in 1..NumKeys |-> Len(table[nodes[i].value])]

----------------------------------------------------------------------------
\* C1: for every non-empty S, with the coder built by new from S, decoding
\* the encoding of S gives S back.
C1_RoundTrip ==
    (/\ entry = "new" /\ chars # <<>>
     /\ encOut.state = "returned" /\ encIn = chars
     /\ decOut.state = "returned" /\ decIn = encOut.bits)
    => decOut.result = chars

\* C2: in the table of a built coder no symbol's code is a prefix of, or
\* equal to, the code of another symbol.
C2_PrefixFree ==
    pc = "ready" =>
        \A a, b \in DOMAIN table : a # b => ~IsPrefix(table[a], table[b])

C2_Witness ==
    /\ pc = "ready" /\ NumKeys >= 3
    /\ \E a, b \in DOMAIN table : Len(table[a]) < Len(table[b])

\* C3: with two or more symbols of positive count, the weighted length of
\* the table is at most that of any binary prefix-free code (any lengths
\* up to the number of symbols that satisfy Kraft's inequality), whichever
\* least node each pop returned.
C3_Optimal ==
    (/\ pc = "ready" /\ NumKeys >= 2
     /\ \A s \in DOMAIN frequencies : frequencies[s] > 0)
    => LET cost == Cost(TableLengths)
       IN \A len \in [1..NumKeys -> 1..NumKeys] :
             Kraft(len) => cost <= Cost(len)

\* Equal frequencies met by the queue, and a table that is not flat.
C3_Witness ==
    /\ pc = "ready" /\ NumKeys >= 4
    /\ \A s \in DOMAIN frequencies : frequencies[s] > 0
    /\ \E a, b \in DOMAIN frequencies : a # b /\ frequencies[a] = frequencies[b]
    /\ \E a, b \in DOMAIN table : Len(table[a]) < Len(table[b])

\* C4: a coder of exactly one symbol gives it a code of at least one bit.
C4_SingleSymbolCode ==
    (pc = "ready" /\ NumKeys = 1)
    => \A s \in DOMAIN table : Len(table[s]) >= 1

\* C5: a decode whose input ends with the cursor away from the root does
\* not return normally with the symbols decoded so far.
C5_Truncated ==
    (decOut.state # "none" /\ FinalCursor # root) => decOut.state # "returned"

\* C6: encode of a sequence with a symbol that has no code panics with the
\* not-found message, wherever the symbol stands; no bits are returned.
C6_UnknownSymbol ==
    (encOut.state # "none" /\ \E i \in DOMAIN encIn : encIn[i] \notin DOMAIN table)
    => /\ encOut.state = "panicked"
       /\ encOut.bits = <<>>
       /\ pc = "panicked"
       /\ panic = NotFoundMsg

\* The unknown symbol comes after a symbol that has a code.
C6_Witness ==
    /\ encOut.state = "panicked"
    /\ Len(encIn) >= 2
    /\ encIn[1] \in DOMAIN table
    /\ table[encIn[1]] # <<>>
    /\ encIn[2] \notin DOMAIN table

\* C7: in every internal node the left child is the node popped first (of
\* least frequency) and the right child the one popped second; for the
\* mapping of the test the table is a=0, c=100, b=101, d=111, f=1100,
\* e=1101, and a has the shortest code.
C7_Expected ==
    ("a" :> <<FALSE>>) @@ ("c" :> <<TRUE, FALSE, FALSE>>)
    @@ ("b" :> <<TRUE, FALSE, TRUE>>) @@ ("d" :> <<TRUE, TRUE, TRUE>>)
    @@ ("f" :> <<TRUE, TRUE, FALSE, FALSE>>) @@ ("e" :> <<TRUE, TRUE, FALSE, TRUE>>)

C7_Orientation ==
    /\ \A k \in DOMAIN nodes : ~IsLeaf(k) =>
          /\ nodes[nodes[k].left].frequency <= nodes[nodes[k].right].frequency
          /\ nodes[nodes[k].left].frequency + nodes[nodes[k].right].frequency
               = nodes[k].frequency
    /\ (pc = "ready" /\ frequencies = TestFrequencies) =>
          /\ table = C7_Expected
          /\ \A s \in DOMAIN table \ {"a"} : Len(table["a"]) < Len(table[s])

C7_Witness ==
    pc = "ready" /\ frequencies = TestFrequencies /\ merges = 5

\* C8: new on an empty slice gives the caller a failure result: the process
\* is not aborted and no coder exists.
C8_EmptyInput ==
    (entry = "new" /\ chars = <<>> /\ pc \notin {"start", "merging"})
    => (pc # "panicked" /\ root = NoNode)

\* C9: the table of a built coder has exactly the symbols of the mapping,
\* and each code, followed from the root, passes internal nodes only and
\* ends at the leaf of its symbol.
C9_TableSound ==
    pc = "ready" =>
        /\ DOMAIN table = DOMAIN frequencies
        /\ \A s \in DOMAIN table :
              LET n == Walk(root, table[s], 1)
              IN n # NoNode /\ IsLeaf(n) /\ nodes[n].value = s

C9_Witness ==
    /\ pc = "ready" /\ NumKeys >= 3
    /\ \E s \in DOMAIN table : Len(table[s]) >= 2 /\ table[s][Len(table[s])]

\* C10: the merge loop removes two nodes and adds one per iteration, ends
\* after exactly n-1 merges with one node in the queue, whose frequency is
\* the sum of the mapping; with n = 1 there is no merge and the root is the
\* sole leaf.
C10_MergeLoop ==
    /\ (pc = "merging" /\ NumKeys >= 1) =>
          /\ Cardinality(heap) = NumKeys - merges
          /\ Cardinality(heap) >= 1
          /\ Cardinality(heap) = 1 =>
                \A r \in heap : nodes[r].frequency = TotalFrequency
    /\ pc = "ready" =>
          /\ merges = NumKeys - 1
          /\ heap = {}
          /\ nodes[root].frequency = TotalFrequency
          /\ NumKeys = 1 => IsLeaf(root)

C10_Witness ==
    pc = "merging" /\ Cardinality(heap) = 1 /\ merges = 3 /\ TotalFrequency >= 4

====
